---- MODULE Spec2Model ----
(***************************************************************************)
(* Model of the TF-IDF job recommender of bias-nomad:                      *)
(*   backend/app/services/tfidf_recommender.py  (the ranker)               *)
(*   backend/app/routes/ml_routes.py            (POST /ml/recommend)       *)
(*   backend/app/utils/schemas.py               (request/response schemas) *)
(*                                                                         *)
(* Texts are sequences of words.  Real numbers (float64 in the code) are   *)
(* carried as fixed-point integers with Scale units per 1.0; every         *)
(* operation rounds to the nearest unit, and the operations are applied in *)
(* the order in which TfidfVectorizer and cosine_similarity apply them.    *)
(***************************************************************************)
EXTENDS Integers, Sequences, FiniteSets, TLC

\* ------------------------------------------------------------------ bounds
MaxJobs == 2
MaxLimit == 3
MaxNegLimit == 1
MaxUsers == 1
MaxCalls == 2

\* ------------------------------------------------------- program constants
MaxFeatures == 5000
MaxRequestLimit == 50
Scale == 1000

\* ------------------------------------------------------------- text fields
\* A nullable text column: None, or a string given as its sequence of words.
None == [null |-> TRUE, text |-> <<>>]
Str(words) == [null |-> FALSE, text |-> words]

\* `x or ""`: None and the empty string both become the empty string.
OrEmpty(field) == IF field.null \/ field.text = <<>> THEN <<>> ELSE field.text

\* f"{title} {skills} {description}".strip()
combine_job_text(job) ==
    OrEmpty(job.title) \o OrEmpty(job.skills) \o OrEmpty(job.description)

\* f"{full_name} {disability_type} {accessibility_needs}".strip()
combine_user_profile_text(user) ==
    OrEmpty(user.full_name) \o OrEmpty(user.disability_type)
        \o OrEmpty(user.accessibility_needs)

\* ------------------------------------------------------ the model's inputs
UserProfiles ==
    { [full_name |-> Str(<<>>), disability_type |-> None,
       accessibility_needs |-> None],
      [full_name |-> Str(<<"The">>), disability_type |-> None,
       accessibility_needs |-> Str(<<"a">>)],
      [full_name |-> Str(<<"Data">>), disability_type |-> None,
       accessibility_needs |-> Str(<<"analyst">>)],
      [full_name |-> Str(<<"data">>), disability_type |-> Str(<<"the">>),
       accessibility_needs |-> Str(<<"Analyst">>)] }

JobPostings ==
    { [title |-> Str(<<>>), skills |-> None, description |-> Str(<<>>)],
      [title |-> Str(<<"data">>), skills |-> None,
       description |-> Str(<<"the", "Analyst">>)],
      [title |-> Str(<<"data">>), skills |-> Str(<<"chef">>),
       description |-> Str(<<"a">>)],
      [title |-> Str(<<"chef">>), skills |-> Str(<<>>),
       description |-> Str(<<"kitchen">>)] }

\* ------------------------------------------------- TfidfVectorizer analyzer
\* lowercase=True, strip_accents='unicode' on the words of the model.
Preprocess(word) ==
    CASE word = "Data" -> "data"
      [] word = "Analyst" -> "analyst"
      [] word = "The" -> "the"
      [] OTHER -> word

\* token_pattern (?u)\b\w\w+\b keeps words of two or more characters.
ShortWords == {"a"}
\* stop_words='english' (the words of the list that the model uses).
StopWords == {"the", "a"}

RECURSIVE FilterTokens(_)
FilterTokens(words) ==
    IF words = <<>> THEN <<>>
    ELSE LET w == Preprocess(Head(words))
         IN  IF w \in ShortWords \/ w \in StopWords
             THEN FilterTokens(Tail(words))
             ELSE <<w>> \o FilterTokens(Tail(words))

\* ngram_range=(1, 2): the unigrams, then the bigrams of adjacent tokens.
Ngrams(tokens) ==
    [i \in 1..Len(tokens) |-> <<tokens[i]>>]
        \o (IF Len(tokens) < 2 THEN <<>>
            ELSE [i \in 1..(Len(tokens) - 1) |-> <<tokens[i], tokens[i + 1]>>])

Analyze(text) == Ngrams(FilterTokens(text))

Range(seq) == {seq[i] : i \in DOMAIN seq}
Count(seq, x) == Cardinality({i \in DOMAIN seq : seq[i] = x})

RECURSIVE SumOver(_, _)
SumOver(S, f) ==
    IF S = {} THEN 0
    ELSE LET x == CHOOSE y \in S : TRUE
         IN  f[x] + SumOver(S \ {x}, f)

\* ------------------------------------------------------ fixed-point reals
RoundDiv(a, b) == (2 * a + b) \div (2 * b)

RECURSIVE SqrtSearch(_, _, _)
SqrtSearch(x, lo, hi) ==
    IF lo >= hi THEN lo
    ELSE LET mid == (lo + hi + 1) \div 2
         IN  IF mid * mid <= x THEN SqrtSearch(x, mid, hi)
             ELSE SqrtSearch(x, lo, mid - 1)

\* sqrt rounded to the nearest unit
Sqrt(x) ==
    LET r == SqrtSearch(x, 0, 46340)
    IN  IF x - r * r > r THEN r + 1 ELSE r

\* natural logarithm, in units of 1/Scale
Ln(k) ==
    CASE k = 1 -> 0    [] k = 2 -> 693  [] k = 3 -> 1099 [] k = 4 -> 1386
      [] k = 5 -> 1609 [] k = 6 -> 1792 [] k = 7 -> 1946 [] k = 8 -> 2079

\* ----------------------------------------------------------- fit_transform
\* The vocabulary learned from the analysed documents, capped at
\* max_features terms by corpus frequency; min_df=1 excludes nothing.
Vocabulary(docs) ==
    LET terms == UNION {Range(docs[d]) : d \in DOMAIN docs}
        total == [t \in terms |->
                    SumOver(DOMAIN docs, [d \in DOMAIN docs |-> Count(docs[d], t)])]
    IN  IF Cardinality(terms) <= MaxFeatures THEN terms
        ELSE CHOOSE kept \in SUBSET terms :
                /\ Cardinality(kept) = MaxFeatures
                /\ \A t \in kept, o \in terms \ kept : total[t] >= total[o]

\* smooth_idf: idf(t) = ln((1 + n) / (1 + df(t))) + 1
Idf(docs, t) ==
    LET n  == Len(docs)
        df == Cardinality({d \in DOMAIN docs : Count(docs[d], t) > 0})
    IN  Ln(1 + n) - Ln(1 + df) + Scale

\* l2 row normalisation; a zero row is left as it is.
Normalize(vec) ==
    LET norm == Sqrt(SumOver(DOMAIN vec, [t \in DOMAIN vec |-> vec[t] * vec[t]]))
    IN  IF norm = 0 THEN vec
        ELSE [t \in DOMAIN vec |-> RoundDiv(vec[t] * Scale, norm)]

\* One row of the tf-idf matrix: tf * idf, l2-normalised.
TfidfRow(docs, vocab, d) ==
    Normalize([t \in vocab |-> Count(docs[d], t) * Idf(docs, t)])

\* Variant: equal rows are given the similarity 1.0 without any arithmetic.
cosine_similarity_EqualRowsAreOne(x, y) ==
    IF x = y THEN Scale
    ELSE LET xn == Normalize(x)
             yn == Normalize(y)
         IN  RoundDiv(SumOver(DOMAIN xn, [t \in DOMAIN xn |-> xn[t] * yn[t]]), Scale)

\* cosine_similarity: normalise both rows again, then the dot product.
cosine_similarity(x, y) ==
    LET xn == Normalize(x)
        yn == Normalize(y)
    IN  RoundDiv(SumOver(DOMAIN xn, [t \in DOMAIN xn |-> xn[t] * yn[t]]), Scale)

\* ------------------------------------------------------------- the ranker
Min(a, b) == IF a <= b THEN a ELSE b
Max(a, b) == IF a >= b THEN a ELSE b

\* Variant: the sort written as an ascending stable sort whose result is
\* reversed, which turns the order of equal scores around.
InsertBeforeEqual(sorted, pair) ==
    LET k == Cardinality({i \in DOMAIN sorted : sorted[i].score > pair.score})
    IN  SubSeq(sorted, 1, k) \o <<pair>> \o SubSeq(sorted, k + 1, Len(sorted))

\* list.sort(key=score, reverse=True): stable, so an element goes after
\* every element already placed whose score is greater than or equal to its own.
InsertByScore(sorted, pair) ==
    LET k == Cardinality({i \in DOMAIN sorted : sorted[i].score >= pair.score})
    IN  SubSeq(sorted, 1, k) \o <<pair>> \o SubSeq(sorted, k + 1, Len(sorted))

\* Variant: reverse=True left out, an ascending sort.
RECURSIVE SortByScoreAscending(_)
SortByScoreAscending(job_scores) ==
    IF job_scores = <<>> THEN <<>>
    ELSE LET rest == SortByScoreAscending(SubSeq(job_scores, 1, Len(job_scores) - 1))
             pair == job_scores[Len(job_scores)]
             k    == Cardinality({i \in DOMAIN rest : rest[i].score <= pair.score})
         IN  SubSeq(rest, 1, k) \o <<pair>> \o SubSeq(rest, k + 1, Len(rest))

RECURSIVE SortByScoreDescending(_)
SortByScoreDescending(job_scores) ==
    IF job_scores = <<>> THEN <<>>
    ELSE InsertByScore(
            SortByScoreDescending(SubSeq(job_scores, 1, Len(job_scores) - 1)),
            job_scores[Len(job_scores)])

\* Variant: the slice taken from the wrong end, job_scores[-limit:].
SliceTo_Tail(seq, limit) ==
    LET n == Len(seq)
    IN  IF limit > 0 THEN SubSeq(seq, Max(n - limit, 0) + 1, n) ELSE seq

\* job_scores[:limit], with Python's meaning of a negative stop.
SliceTo(seq, limit) ==
    LET n    == Len(seq)
        stop == IF limit >= 0 THEN Min(limit, n) ELSE Max(n + limit, 0)
    IN  SubSeq(seq, 1, stop)

\* The analysed corpus: the user's text is document 1, then the jobs' texts.
Corpus(user, jobs) ==
    <<Analyze(combine_user_profile_text(user))>>
        \o [i \in 1..Len(jobs) |-> Analyze(combine_job_text(jobs[i]))]

\* Variant: the user's row is not skipped, job i is scored with row i.
SimilarityScores_RowOffByOne(docs) ==
    LET vocab == Vocabulary(docs)
        urow  == TfidfRow(docs, vocab, 1)
    IN  [i \in 1..(Len(docs) - 1) |->
            cosine_similarity(urow, TfidfRow(docs, vocab, i))]

\* similarity_scores: the cosine of the user's row with each job's row.
SimilarityScores(docs) ==
    LET vocab == Vocabulary(docs)
        urow  == TfidfRow(docs, vocab, 1)
    IN  [i \in 1..(Len(docs) - 1) |->
            cosine_similarity(urow, TfidfRow(docs, vocab, i + 1))]

\* Variant: the empty list is rejected, as the docstring's Raises section says.
EmptyJobsRaises(jobs) == [status |-> "ValueError", matches |-> <<>>, fitted |-> FALSE]

\* `if not jobs: return []`
EmptyJobsOutcome(jobs) == [status |-> "returned", matches |-> <<>>, fitted |-> FALSE]

\* fit_transform raises ValueError("empty vocabulary; ...") when no document
\* contributes a term.
compute_tfidf_recommendations(user, jobs, limit) ==
    IF jobs = <<>> THEN EmptyJobsOutcome(jobs)
    ELSE LET docs == Corpus(user, jobs)
         IN  IF Vocabulary(docs) = {}
             THEN [status |-> "ValueError", matches |-> <<>>, fitted |-> FALSE]
             ELSE LET scores     == SimilarityScores(docs)
                      job_scores == [i \in 1..Len(jobs) |->
                                        [job |-> jobs[i], score |-> scores[i]]]
                  IN  [status  |-> "returned",
                       matches |-> SliceTo(SortByScoreDescending(job_scores), limit),
                       fitted  |-> TRUE]

\* Variant: the caller's list itself is sorted (jobs.sort by score).
JobsSortedInPlace(jobs, user) ==
    LET docs == Corpus(user, jobs)
    IN  IF jobs = <<>> \/ Vocabulary(docs) = {} THEN jobs
        ELSE LET scores == SimilarityScores(docs)
                 sorted == SortByScoreDescending(
                               [i \in 1..Len(jobs) |->
                                   [job |-> jobs[i], score |-> scores[i]]])
             IN  [i \in 1..Len(jobs) |-> sorted[i].job]

\* The caller's list after the call: the sort is applied to job_scores, a new
\* list, and nothing is assigned to the jobs or to the user.
JobsAfterRank(jobs, user) == jobs

\* ----------------------------------------------------- POST /ml/recommend
\* Variant: the limit field declared without its upper bound le=50.
ValidRequest_NoUpperBound(request) ==
    /\ request.user_id > 0
    /\ request.limit >= 1

\* RecommendationRequest: user_id > 0, 1 <= limit <= 50.
ValidRequest(request) ==
    /\ request.user_id > 0
    /\ request.limit >= 1
    /\ request.limit <= MaxRequestLimit

\* db.query(User).filter(User.id == user_id).first(): rows carry their
\* position in the table as id.
UserFound(users, user_id) == user_id \in DOMAIN users

\* JobRecommendation: match_score is validated to lie in [0.0, 1.0].
ValidMatchScore(score) == score >= 0 /\ score <= Scale

ErrorResponse(code, steps) ==
    [code |-> code, user_id |-> 0, recommendations |-> <<>>, total_found |-> 0,
     trace |-> steps]

\* Variant: total_found counts the jobs that were ranked, not the entries
\* of the response.
RecommendationResponse_TotalIsPool(request, all_jobs, job_scores, steps) ==
    [code |-> 200, user_id |-> request.user_id,
     recommendations |->
         [i \in DOMAIN job_scores |->
             [job |-> job_scores[i].job, match_score |-> job_scores[i].score]],
     total_found |-> Len(all_jobs),
     trace |-> steps]

\* RecommendationResponse(user_id=request.user_id,
\*     recommendations=recommendations, total_found=len(recommendations))
RecommendationResponse(request, all_jobs, job_scores, steps) ==
    [code |-> 200, user_id |-> request.user_id,
     recommendations |->
         [i \in DOMAIN job_scores |->
             [job |-> job_scores[i].job, match_score |-> job_scores[i].score]],
     total_found |-> Len(job_scores),
     trace |-> steps]

\* Variant: the jobs are read before the user is looked up.
recommend_jobs_JobsFirst(users, jobs, request) ==
    IF ~ValidRequest(request) THEN ErrorResponse(422, <<"validate">>)
    ELSE IF ~UserFound(users, request.user_id)
    THEN ErrorResponse(404, <<"validate", "job_query", "user_lookup">>)
    ELSE [code |-> 200, user_id |-> request.user_id, recommendations |-> <<>>,
          total_found |-> 0, trace |-> <<"validate", "job_query", "user_lookup">>]

\* The handler, with the steps it performed in the order it performed them.
recommend_jobs(users, jobs, request) ==
    IF ~ValidRequest(request) THEN ErrorResponse(422, <<"validate">>)
    ELSE IF ~UserFound(users, request.user_id)
    THEN ErrorResponse(404, <<"validate", "user_lookup">>)
    ELSE IF jobs = <<>>
    THEN [code |-> 200, user_id |-> request.user_id, recommendations |-> <<>>,
          total_found |-> 0, trace |-> <<"validate", "user_lookup", "job_query">>]
    ELSE LET out   == compute_tfidf_recommendations(
                          users[request.user_id], jobs, request.limit)
             steps == <<"validate", "user_lookup", "job_query", "rank">>
         IN  IF out.status # "returned" THEN ErrorResponse(500, steps)
             ELSE IF \E i \in DOMAIN out.matches :
                        ~ValidMatchScore(out.matches[i].score)
             THEN ErrorResponse(500, steps \o <<"build">>)
             ELSE RecommendationResponse(request, jobs, out.matches,
                                         steps \o <<"build">>)

\* ------------------------------------------------------------------ state
VARIABLES
    users,      \* the users table: a sequence of profiles, id = position
    jobs,       \* the jobs table: a sequence of postings, id = position
    op,         \* the last operation: "none", "rank" or "recommend"
    args,       \* its arguments
    outcome,    \* what the ranker did in a direct call
    response,   \* what the endpoint answered
    calls,      \* the invocations of the ranker in progress, by number
    vectorizers \* the TfidfVectorizer objects: the corpus each was fitted on

vars == <<users, jobs, op, args, outcome, response, calls, vectorizers>>

NoArgs == [user_id |-> 0, limit |-> 0]
NoOutcome == [status |-> "none", matches |-> <<>>, fitted |-> FALSE]
NoResponse == ErrorResponse(0, <<>>)

Calls == 1..MaxCalls
NoUser == [full_name |-> None, disability_type |-> None,
           accessibility_needs |-> None]
NoCall == [pc |-> "idle", user |-> NoUser, limit |-> 0, result |-> NoOutcome]
NoCalls == [i \in Calls |-> NoCall]
Unfitted == [v \in Calls |-> <<>>]

Limits == (0 - MaxNegLimit)..MaxLimit
RequestUserIds == 0..(MaxUsers + 1)
RequestLimits == (0..MaxLimit) \cup {MaxRequestLimit, MaxRequestLimit + 1}

Init ==
    /\ users = <<>>
    /\ jobs = <<>>
    /\ op = "none"
    /\ args = NoArgs
    /\ outcome = NoOutcome
    /\ response = NoResponse
    /\ calls = NoCalls
    /\ vectorizers = Unfitted

\* A row is added to the users table.
InsertUser ==
    /\ Len(users) < MaxUsers
    /\ \E profile \in UserProfiles : users' = Append(users, profile)
    /\ op' = "none" /\ args' = NoArgs /\ outcome' = NoOutcome
    /\ response' = NoResponse
    /\ UNCHANGED <<jobs, calls, vectorizers>>

\* A row is added to the jobs table.
InsertJob ==
    /\ Len(jobs) < MaxJobs
    /\ \E posting \in JobPostings :
          jobs' = Append(jobs, [id |-> Len(jobs) + 1, title |-> posting.title,
                                skills |-> posting.skills,
                                description |-> posting.description])
    /\ op' = "none" /\ args' = NoArgs /\ outcome' = NoOutcome
    /\ response' = NoResponse
    /\ UNCHANGED <<users, calls, vectorizers>>

\* A direct call rank(user, jobs, limit) with a stored user and the jobs table.
\* Calls are made one at a time: a call starts when the previous one is over.
Rank ==
    \E uid \in DOMAIN users, limit \in Limits :
        /\ op = "none"
        /\ op' = "rank"
        /\ args' = [user_id |-> uid, limit |-> limit]
        /\ outcome' = compute_tfidf_recommendations(users[uid], jobs, limit)
        /\ jobs' = JobsAfterRank(jobs, users[uid])
        /\ response' = NoResponse
        /\ UNCHANGED <<users, calls, vectorizers>>

\* A request to POST /ml/recommend.
Recommend ==
    \E user_id \in RequestUserIds, limit \in RequestLimits :
        LET request == [user_id |-> user_id, limit |-> limit]
        IN  /\ op = "none"
            /\ op' = "recommend"
            /\ args' = request
            /\ response' = recommend_jobs(users, jobs, request)
            /\ outcome' = NoOutcome
            /\ jobs' = IF ValidRequest(request) /\ UserFound(users, user_id)
                          /\ jobs # <<>>
                       THEN JobsAfterRank(jobs, users[user_id]) ELSE jobs
            /\ UNCHANGED <<users, calls, vectorizers>>

\* The caller has taken the result of its call; the next call can be made.
Return ==
    /\ op # "none"
    /\ op' = "none" /\ args' = NoArgs /\ outcome' = NoOutcome
    /\ response' = NoResponse
    /\ UNCHANGED <<users, jobs, calls, vectorizers>>

Next == InsertUser \/ InsertJob \/ Rank \/ Recommend \/ Return

Spec == Init /\ [][Next]_vars

\* ------------------------------------------- invocations running together
\* The handler is a plain def, so the framework runs every request on a
\* thread of its pool and invocations of the ranker interleave.  Each one
\* is followed through its steps: the vectorizer is fitted (the vocabulary
\* and the idf weights are stored in the vectorizer object), then the
\* documents are transformed with what the vectorizer holds, scored, sorted
\* and sliced.

\* The candidate pool handed to every invocation; it is not empty, so the
\* guard `if not jobs` is passed.
CandidatePool ==
    << [id |-> 1, title |-> Str(<<"data">>), skills |-> None,
        description |-> Str(<<"the", "Analyst">>)],
       [id |-> 2, title |-> Str(<<"data">>), skills |-> Str(<<"chef">>),
        description |-> Str(<<"a">>)],
       [id |-> 3, title |-> Str(<<"chef">>), skills |-> Str(<<>>),
        description |-> Str(<<"kitchen">>)] >>

\* The limits of the invocations: one that truncates the ranking and one
\* that returns the whole of it.
CallLimits == {1, Len(CandidatePool)}

\* Variant: one module-level vectorizer used by every invocation.
VectorizerOf_Singleton(i) == 1

\* `vectorizer = TfidfVectorizer(...)` is a local of the call: invocation i
\* works on an object of its own.
VectorizerOf(i) == i

\* One row of the matrix that transform computes: the counts of the
\* document over the vocabulary the vectorizer holds, weighted by the idf
\* it holds.
TransformRow(fitted, docs, d) ==
    Normalize([t \in Vocabulary(fitted) |-> Count(docs[d], t) * Idf(fitted, t)])

\* Lines 120-133 on the transformed matrix.
RankTransformed(fitted, user, pool, limit) ==
    LET docs       == Corpus(user, pool)
        urow       == TransformRow(fitted, docs, 1)
        job_scores == [i \in 1..Len(pool) |->
                          [job   |-> pool[i],
                           score |-> cosine_similarity(
                                         urow, TransformRow(fitted, docs, i + 1))]]
    IN  [status  |-> "returned",
         matches |-> SliceTo(SortByScoreDescending(job_scores), limit),
         fitted  |-> TRUE]

InitConc ==
    /\ users = <<>>
    /\ jobs = <<>>
    /\ op = "none"
    /\ args = NoArgs
    /\ outcome = NoOutcome
    /\ response = NoResponse
    /\ calls = NoCalls
    /\ vectorizers = Unfitted

\* Invocation i is entered with its arguments; invocations are numbered in
\* the order in which they are entered.
Invoke(i) ==
    /\ calls[i].pc = "idle"
    /\ i > 1 => calls[i - 1].pc # "idle"
    /\ \E user \in UserProfiles, limit \in CallLimits :
          calls' = [calls EXCEPT ![i] = [pc |-> "fit", user |-> user,
                                        limit |-> limit, result |-> NoOutcome]]
    /\ UNCHANGED <<users, jobs, op, args, outcome, response, vectorizers>>

\* The first half of fit_transform: the vectorizer learns the vocabulary
\* and the idf weights of all_texts, or raises for an empty vocabulary.
Fit(i) ==
    LET docs == Corpus(calls[i].user, CandidatePool)
    IN  /\ calls[i].pc = "fit"
        /\ IF Vocabulary(docs) = {}
           THEN /\ calls' = [calls EXCEPT ![i].pc = "done",
                                 ![i].result = [status |-> "ValueError",
                                                matches |-> <<>>,
                                                fitted |-> FALSE]]
                /\ UNCHANGED vectorizers
           ELSE /\ calls' = [calls EXCEPT ![i].pc = "transform"]
                /\ vectorizers' = [vectorizers EXCEPT ![VectorizerOf(i)] = docs]
        /\ UNCHANGED <<users, jobs, op, args, outcome, response>>

\* The second half of fit_transform and the rest of the function: the
\* matrix is computed with what the vectorizer holds, and the result is
\* returned.
Transform(i) ==
    /\ calls[i].pc = "transform"
    /\ calls' = [calls EXCEPT ![i].pc = "done",
                     ![i].result = RankTransformed(
                                       vectorizers[VectorizerOf(i)],
                                       calls[i].user, CandidatePool,
                                       calls[i].limit)]
    /\ UNCHANGED <<users, jobs, op, args, outcome, response, vectorizers>>

NextConc == \E i \in Calls : Invoke(i) \/ Fit(i) \/ Transform(i)

SpecConc == InitConc /\ [][NextConc]_vars

\* ------------------------------------------------------------- properties
RankCalled == op = "rank"
RankedUser == users[args.user_id]
Matches == outcome.matches

\* C1: for every user, every non-empty job sequence and every positive limit,
\* rank returns exactly min(limit, number of jobs) matches.
C1_LengthIsMinOfLimitAndJobs ==
    (RankCalled /\ jobs # <<>> /\ args.limit > 0)
        => /\ outcome.status = "returned"
           /\ Len(Matches) = Min(args.limit, Len(jobs))

\* C2: the result of rank is sorted by score descending: the score at every
\* position is greater than or equal to the score at the next position.
C2_SortedByScoreDescending ==
    RankCalled =>
        \A i \in 1..(Len(Matches) - 1) : Matches[i].score >= Matches[i + 1].score

\* A call whose result has two different scores, the better job being the
\* later one of the input.
C2_Witness ==
    /\ RankCalled
    /\ \E i \in 1..(Len(Matches) - 1) :
          /\ Matches[i].score > Matches[i + 1].score
          /\ Matches[i].job.id > Matches[i + 1].job.id

\* C3: ties are broken stably: of two jobs of the result with equal scores,
\* the one that came earlier in the input sequence comes earlier in the result.
C3_TiesKeepInputOrder ==
    RankCalled =>
        \A i, j \in DOMAIN Matches :
            (i < j /\ Matches[i].score = Matches[j].score)
                => Matches[i].job.id < Matches[j].job.id

\* A call whose result holds two jobs with the same score.
C3_Witness ==
    /\ RankCalled
    /\ \E i, j \in DOMAIN Matches : i < j /\ Matches[i].score = Matches[j].score

C5_ScoresInUnitInterval ==
    /\ RankCalled =>
          \A i \in DOMAIN Matches : Matches[i].score >= 0 /\ Matches[i].score <= Scale
    /\ (op = "recommend" /\ \E i \in DOMAIN response.trace : response.trace[i] = "build")
          => response.code = 200

\* C6: a call to rank with a zero or negative limit is signalled to the
\* caller as an error (InvalidArgument); it returns no list of matches.
C6_NonPositiveLimitIsAnError ==
    (RankCalled /\ args.limit <= 0) => outcome.status = "InvalidArgument"

\* C7: when the user's composed text and every job's composed text are empty
\* (jobs non-empty, limit positive), rank does not fail: it returns
\* min(limit, number of jobs) matches, all with score 0.0, in input order.
C7_AllEmptyTextsScoreZero ==
    (/\ RankCalled /\ jobs # <<>> /\ args.limit > 0
     /\ combine_user_profile_text(RankedUser) = <<>>
     /\ \A i \in DOMAIN jobs : combine_job_text(jobs[i]) = <<>>)
        => /\ outcome.status = "returned"
           /\ Len(Matches) = Min(args.limit, Len(jobs))
           /\ \A i \in DOMAIN Matches : Matches[i].score = 0 /\ Matches[i].job = jobs[i]

\* C9: rank leaves its inputs unchanged: after any call, every field of the
\* user profile and of every job posting, and the order and contents of the
\* caller's jobs sequence, are what they were before the call.
C9_InputsUnchanged ==
    [][(op' \in {"rank", "recommend"}) => (users' = users /\ jobs' = jobs)]_vars

\* A call whose result orders the jobs differently from the caller's list,
\* which is still in the order of insertion.
C9_Witness ==
    /\ RankCalled /\ Len(Matches) >= 2
    /\ Matches[1].job.id = 2 /\ Matches[2].job.id = 1
    /\ \A i \in DOMAIN jobs : jobs[i].id = i

UnknownUserRequest == op = "recommend" /\ ~UserFound(users, args.user_id)

\* C10 as stated: a request whose user identifier is not in the user store
\* always ends in a not-found response, the user lookup being the first step.
C10_UnknownUserAlwaysNotFound ==
    UnknownUserRequest => response.code = 404

\* C10, amended: a request that passes validation and whose user identifier
\* is not in the user store ends in a not-found response, and after the
\* validation the user lookup is the only step: the jobs are not read and the
\* ranker is not invoked.
C10_ValidUnknownUserNotFound ==
    (UnknownUserRequest /\ ValidRequest(args))
        => /\ response.code = 404
           /\ response.trace = <<"validate", "user_lookup">>

\* A valid request for an unknown user while a user and jobs with terms exist.
C10_Witness ==
    /\ UnknownUserRequest /\ ValidRequest(args)
    /\ users # <<>> /\ jobs # <<>>
    /\ Vocabulary(Corpus(users[1], jobs)) # {}
    /\ response.code = 404

\* The last request named a stored user while the jobs table was empty.
EmptyPoolRequest ==
    op = "recommend" /\ UserFound(users, args.user_id) /\ jobs = <<>>

\* C11 as stated: every successful response carries the requesting user's
\* identifier and a total_found equal to the number of its recommendations,
\* and whenever the job pool is empty and the user exists the response is a
\* success with no recommendation and total_found = 0.
C11_SuccessShapeAndEmptyPool ==
    /\ (op = "recommend" /\ response.code = 200)
          => /\ response.user_id = args.user_id
             /\ response.total_found = Len(response.recommendations)
    /\ EmptyPoolRequest
          => /\ response.code = 200
             /\ response.recommendations = <<>>
             /\ response.total_found = 0

\* C11, amended: the same, the empty-pool case for a request that passes
\* the request validation.
C11_SuccessShapeAndValidEmptyPool ==
    /\ (op = "recommend" /\ response.code = 200)
          => /\ response.user_id = args.user_id
             /\ response.total_found = Len(response.recommendations)
    /\ (EmptyPoolRequest /\ ValidRequest(args))
          => /\ response.code = 200
             /\ response.recommendations = <<>>
             /\ response.total_found = 0

\* A successful response that holds fewer recommendations than jobs exist.
C11_Witness ==
    /\ op = "recommend" /\ response.code = 200
    /\ response.recommendations # <<>>
    /\ Len(response.recommendations) < Len(jobs)


UserTerms == Range(Analyze(combine_user_profile_text(RankedUser)))
JobTerms(job) == Range(Analyze(combine_job_text(job)))
SameTextAsUser(job) == combine_job_text(job) = combine_user_profile_text(RankedUser)

\* In the result, every job with the user's text has a higher score than, and
\* stands before, every job that shares no term with the user.
IdenticalBeatsDisjoint ==
    \A i, j \in DOMAIN Matches :
        (SameTextAsUser(Matches[i].job) /\ JobTerms(Matches[j].job) \cap UserTerms = {})
            => (Matches[i].score > Matches[j].score /\ i < j)

ZeroRow(d) ==
    LET docs == Corpus(RankedUser, jobs)
        row  == TfidfRow(docs, Vocabulary(docs), d)
    IN  \A t \in DOMAIN row : row[t] = 0

\* C13: a job's score is exactly 0.0 whenever the user's vector or that
\* job's vector has zero magnitude; the call returns, no undefined value
\* stands in for the score.
C13_ZeroMagnitudeScoresZero ==
    (RankCalled /\ outcome.fitted)
        => /\ outcome.status = "returned"
           /\ \A i \in DOMAIN Matches :
                 (ZeroRow(1) \/ ZeroRow(Matches[i].job.id + 1))
                     => Matches[i].score = 0

\* A result for a user whose text is made of stop words only, holding a job
\* without text and a job with terms.
C13_Witness ==
    /\ RankCalled /\ outcome.fitted
    /\ combine_user_profile_text(RankedUser) # <<>> /\ ZeroRow(1)
    /\ \E i, j \in DOMAIN Matches :
          /\ ZeroRow(Matches[i].job.id + 1)
          /\ ~ZeroRow(Matches[j].job.id + 1)


\* The score of the job at position k of the input of the last call.
OwnScore(k) == SimilarityScores(Corpus(RankedUser, jobs))[k]
ReturnedIds == {Matches[i].job.id : i \in DOMAIN Matches}

\* C14: rank returns the top-K jobs: for a positive limit every returned
\* match is one job of the input paired with that job's own score, no input
\* position is returned twice, and every job of the input that is absent
\* from the result scores no more than any returned job.
C14_ResultIsTopK ==
    (RankCalled /\ outcome.status = "returned" /\ args.limit > 0)
        => /\ \A i \in DOMAIN Matches :
                 /\ Matches[i].job.id \in DOMAIN jobs
                 /\ Matches[i].job = jobs[Matches[i].job.id]
                 /\ Matches[i].score = OwnScore(Matches[i].job.id)
           /\ \A i, j \in DOMAIN Matches :
                 i # j => Matches[i].job.id # Matches[j].job.id
           /\ \A k \in DOMAIN jobs \ ReturnedIds : \A i \in DOMAIN Matches :
                 OwnScore(k) <= Matches[i].score

\* A result that leaves out a job, the first of the input, whose score is
\* lower than every returned score.
C14_Witness ==
    /\ RankCalled /\ outcome.status = "returned" /\ args.limit > 0
    /\ Matches # <<>>
    /\ 1 \in DOMAIN jobs \ ReturnedIds
    /\ \A i \in DOMAIN Matches : OwnScore(1) < Matches[i].score


RankerInvoked == \E i \in DOMAIN response.trace : response.trace[i] = "rank"

\* C15: through the endpoint the ranker is only ever invoked with a limit
\* from 1 to 50, and a request whose limit is below 1 or above 50, or whose
\* user id is not positive, is rejected by validation before any lookup in
\* the stores and before any ranking.
C15_RankerLimitWithinRequestBounds ==
    op = "recommend"
        => /\ RankerInvoked
                => /\ args.limit >= 1 /\ args.limit <= MaxRequestLimit
                   /\ response.code = 200
                        => Len(response.recommendations)
                               = Min(args.limit, Len(jobs))
           /\ (args.limit < 1 \/ args.limit > MaxRequestLimit
                    \/ args.user_id <= 0)
                => /\ response.code = 422
                   /\ response.trace = <<"validate">>

\* A request for a stored user over a non-empty jobs table, rejected for its
\* limit above 50.
C15_Witness ==
    /\ op = "recommend"
    /\ args.limit > MaxRequestLimit
    /\ UserFound(users, args.user_id)
    /\ jobs # <<>>
    /\ response.code = 422


\* C16: invocations of rank that run at the same time do not interfere:
\* every invocation that has returned has returned exactly what the call
\* with its own user, pool and limit returns when it runs alone.
C16_ConcurrentCallsReturnTheirOwnResult ==
    \A i \in Calls :
        calls[i].pc = "done"
            => calls[i].result = compute_tfidf_recommendations(
                                     calls[i].user, CandidatePool, calls[i].limit)

\* The second invocation, for another user, has fitted its vectorizer and
\* returned while the first was between its fit and its transform, and the
\* first invocation's own result is a different one.
C16_Witness ==
    /\ calls[1].pc = "transform"
    /\ calls[2].pc = "done"
    /\ calls[1].user # calls[2].user
    /\ calls[2].result.matches
           # compute_tfidf_recommendations(
                 calls[1].user, CandidatePool, calls[2].limit).matches


====
